---- MODULE Spec2Model ----
(***************************************************************************)
(* Model of the analyzer of the tokenizer crate: pipeline construction,    *)
(* pipeline resolution, pre-processing, the lazy token stream              *)
(* (segment -> normalize -> classify) and reconstruction.                  *)
(*                                                                         *)
(* A text is a sequence of characters; a character is a string naming it.  *)
(* Byte offsets are offsets into the UTF-8 encoding, so every character    *)
(* has a width in bytes.                                                   *)
(***************************************************************************)
EXTENDS Integers, Sequences, FiniteSets, TLC

\* config:           the AnalyzerConfig the Analyzer owns (pipeline_map, stop_words)
\* DEFAULT_PIPELINE: the lazily built library default pipeline
\* text_arg:         the text given to the last call of analyze
\* analyzed:         the AnalyzedText that call returned (<<>> before any call)
\* streams:          the token streams taken from that AnalyzedText
\* builder:          a pipeline under construction and the setter calls made on it
VARIABLES config, DEFAULT_PIPELINE, text_arg, analyzed, streams, builder

vars == <<config, DEFAULT_PIPELINE, text_arg, analyzed, streams, builder>>

---------------------------------------------------------------------------
(* Bounds of the model *)

\* longest enumerated input text, in characters
MaxLen == 3
\* token streams alive at the same time on one AnalyzedText
MaxStreams == 2
\* entries of a caller-built pipeline_map
MaxEntries == 2
\* longest input text when only the resolution is followed
MaxResolveLen == 2
\* setter calls on one pipeline under construction
MaxSetterCalls == 3

---------------------------------------------------------------------------
(* Characters and texts *)

\* "YAN_T" is a traditional Chinese character, "YAN_S" its simplified form,
\* "FWCOMMA" the small comma U+FE50.
LatinLower == {"a", "b", "d", "e", "g", "h", "l", "o", "t"}
LatinUpper == {"B", "H"}
CjkChars == {"YAN_T", "YAN_S"}
SoftChars == {" "}
HardChars == {".", ",", "FWCOMMA"}
Chars == LatinLower \cup LatinUpper \cup CjkChars \cup SoftChars \cup HardChars

\* characters of the enumerated input texts
Alphabet == {"a", "B", " ", ".", "YAN_T"}

\* UTF-8 width of a character
Width(c) == IF c \in CjkChars \cup {"FWCOMMA"} THEN 3 ELSE 1

RECURSIVE ByteLen(_)
ByteLen(s) == IF s = <<>> THEN 0 ELSE Width(Head(s)) + ByteLen(Tail(s))

\* the UTF-8 encoding of a text: byte k of character c is <<c, k>>
RECURSIVE Bytes(_)
Bytes(s) ==
    IF s = <<>> THEN <<>>
    ELSE [k \in 1..Width(Head(s)) |-> <<Head(s), k>>] \o Bytes(Tail(s))

\* byte offset at which character i of s starts (i = Len(s)+1: the end)
OffsetOf(s, i) == ByteLen(SubSeq(s, 1, i - 1))

IsCharBoundary(s, off) == \E i \in 1..(Len(s) + 1) : OffsetOf(s, i) = off

\* what a failed slice leaves in place of the bytes
Panicked == << <<"panic", 0>> >>

\* &s[byte_start..byte_end], as bytes
Slice(s, byte_start, byte_end) ==
    IF /\ byte_start <= byte_end
       /\ IsCharBoundary(s, byte_start)
       /\ IsCharBoundary(s, byte_end)
    THEN SubSeq(Bytes(s), byte_start + 1, byte_end)
    ELSE Panicked

RECURSIVE Concat(_)
Concat(ss) == IF ss = <<>> THEN <<>> ELSE Head(ss) \o Concat(Tail(ss))

RECURSIVE SeqsUpTo(_, _)
SeqsUpTo(S, n) ==
    IF n = 0 THEN {<<>>}
    ELSE LET shorter == SeqsUpTo(S, n - 1)
         IN  shorter \cup {Append(s, c) : s \in {x \in shorter : Len(x) = n - 1}, c \in S}

\* "Hello, the dog." of tests/token_kind.rs
HelloTheDog ==
    <<"H", "e", "l", "l", "o", ",", " ", "t", "h", "e", " ", "d", "o", "g", ".">>
\* a traditional character, the small comma and a simplified character
ChineseSample == <<"YAN_T", "FWCOMMA", "YAN_S">>

Texts == SeqsUpTo(Alphabet, MaxLen) \cup {HelloTheDog, ChineseSample}

ResolveTexts == SeqsUpTo(Alphabet, MaxResolveLen)

---------------------------------------------------------------------------
(* Pipeline and its builder *)

PreProcessors == {"IdentityPreProcessor", "ChineseTranslationPreProcessor"}
Tokenizers == {"UnicodeSegmenter", "LegacyMeilisearch", "Jieba"}

\* A normalizer is one normalizer or a Vec of boxed normalizers.  The
\* deunicoder built with the is_cjk closure is "DeunicodeNormalizer(is_cjk)".
AtomicNormalizers ==
    {"IdentityNormalizer", "LowercaseNormalizer", "DeunicodeNormalizer",
     "DeunicodeNormalizer(is_cjk)"}
One(n) == [vec |-> FALSE, items |-> <<n>>]
VecOf(ns) == [vec |-> TRUE, items |-> ns]

IdentityNormalizer == One("IdentityNormalizer")
LowercaseNormalizer == One("LowercaseNormalizer")
latin_normalizer == VecOf(<<"DeunicodeNormalizer", "LowercaseNormalizer">>)
chinese_normalizer == VecOf(<<"DeunicodeNormalizer(is_cjk)", "LowercaseNormalizer">>)

Normalizers ==
    {IdentityNormalizer, LowercaseNormalizer, One("DeunicodeNormalizer"),
     latin_normalizer, chinese_normalizer,
     VecOf(<<"LowercaseNormalizer", "DeunicodeNormalizer">>), VecOf(<<>>)}

\* variant: the default pipeline lowercases
PipelineDefaultLowercase ==
    [pre_processor |-> "IdentityPreProcessor",
     tokenizer |-> "UnicodeSegmenter",
     normalizer |-> LowercaseNormalizer]

PipelineDefault ==
    [pre_processor |-> "IdentityPreProcessor",
     tokenizer |-> "UnicodeSegmenter",
     normalizer |-> IdentityNormalizer]

set_pre_processor(self, pre_processor) == [self EXCEPT !.pre_processor = pre_processor]

\* variant: the setter starts again from the default pipeline
set_tokenizer_from_default(self, tokenizer) ==
    [pre_processor |-> "IdentityPreProcessor",
     tokenizer |-> tokenizer,
     normalizer |-> IdentityNormalizer]

set_tokenizer(self, tokenizer) == [self EXCEPT !.tokenizer = tokenizer]

set_normalizer(self, normalizer) == [self EXCEPT !.normalizer = normalizer]

---------------------------------------------------------------------------
(* Token *)

TokenKind == {"Word", "StopWord", "Separator"}

Token(kind, word, byte_start, byte_end) ==
    [kind |-> kind, word |-> word, byte_start |-> byte_start, byte_end |-> byte_end]

text(token) == token.word

byte_len(token) == token.byte_end - token.byte_start

is_word(token) == token.kind = "Word"

is_separator(token) == token.kind = "Separator"

is_stopword(token) == token.kind = "StopWord"

---------------------------------------------------------------------------
(* Pre-processors *)

ProcessedText(processed, original) == [processed |-> processed, original |-> original]

\* IdentityPreProcessor: the text, borrowed
IdentityProcess(s) == ProcessedText(s, s)

\* traditional -> simplified, character by character
Simplified(c) == IF c = "YAN_T" THEN "YAN_S" ELSE c

ChineseTranslationProcess(s) ==
    ProcessedText([i \in 1..Len(s) |-> Simplified(s[i])], s)

process(pre_processor, s) ==
    IF pre_processor = "ChineseTranslationPreProcessor"
    THEN ChineseTranslationProcess(s)
    ELSE IdentityProcess(s)

---------------------------------------------------------------------------
(* Segmenters *)

IsLetter(c) == c \in LatinLower \cup LatinUpper
IsSeparatorChar(c) == c \in SoftChars \cup HardChars

\* words of the Chinese dictionary
JiebaDict == {<<"YAN_S", "YAN_S">>}

\* whether character j of s belongs to the segment that starts at character i
\* and so far ends at j - 1
Joins(tokenizer, s, i, j) ==
    CASE tokenizer = "UnicodeSegmenter" -> IsLetter(s[i]) /\ IsLetter(s[j])
      [] tokenizer = "LegacyMeilisearch" ->
            \/ IsLetter(s[i]) /\ IsLetter(s[j])
            \/ IsSeparatorChar(s[i]) /\ IsSeparatorChar(s[j])
      [] OTHER ->
            \/ IsLetter(s[i]) /\ IsLetter(s[j])
            \/ SubSeq(s, i, j) \in JiebaDict

RECURSIVE SegmentEnd(_, _, _, _)
SegmentEnd(tokenizer, s, i, j) ==
    IF j < Len(s) /\ Joins(tokenizer, s, i, j + 1)
    THEN SegmentEnd(tokenizer, s, i, j + 1)
    ELSE j

\* the kind a segmenter gives a segment: Word or Separator
SegmentKind(word) == IF IsSeparatorChar(word[1]) THEN "Separator" ELSE "Word"

RECURSIVE SegmentsFrom(_, _, _)
SegmentsFrom(tokenizer, s, i) ==
    IF i > Len(s) THEN <<>>
    ELSE LET j == SegmentEnd(tokenizer, s, i, i)
             word == SubSeq(s, i, j)
         IN  <<Token(SegmentKind(word), word, OffsetOf(s, i), OffsetOf(s, j + 1))>>
                \o SegmentsFrom(tokenizer, s, j + 1)

\* tokenizer.tokenize(&processed): the tokens of the processed text, in order
tokenize(tokenizer, processed) == SegmentsFrom(tokenizer, processed.processed, 1)

---------------------------------------------------------------------------
(* Normalizers *)

Lower(c) ==
    CASE c = "B" -> "b"
      [] c = "H" -> "h"
      [] c = "Y" -> "y"
      [] OTHER -> c

\* ASCII transliteration of one character
Deunicode(c) ==
    CASE c \in CjkChars -> <<"Y", "a", "n", " ">>
      [] c = "FWCOMMA" -> <<",">>
      [] OTHER -> <<c>>

is_cjk(c) == c \in CjkChars

LowercaseWord(word) == [i \in 1..Len(word) |-> Lower(word[i])]

DeunicodeWord(word) == Concat([i \in 1..Len(word) |-> Deunicode(word[i])])

\* IdentityNormalizer: the token, as it is
IdentityNormalize(token) == token

NormalizeOne(n, token) ==
    CASE n = "LowercaseNormalizer" -> [token EXCEPT !.word = LowercaseWord(token.word)]
      [] n = "DeunicodeNormalizer" -> [token EXCEPT !.word = DeunicodeWord(token.word)]
      [] n = "DeunicodeNormalizer(is_cjk)" ->
            IF token.word # <<>> /\ is_cjk(token.word[1])
            THEN token
            ELSE [token EXCEPT !.word = DeunicodeWord(token.word)]
      [] OTHER -> IdentityNormalize(token)

\* a Vec of normalizers: each member in the order of the list
RECURSIVE NormalizeVec(_, _)
NormalizeVec(items, token) ==
    IF items = <<>> THEN token
    ELSE NormalizeVec(Tail(items), NormalizeOne(Head(items), token))

normalize(normalizer, token) ==
    IF normalizer.vec
    THEN NormalizeVec(normalizer.items, token)
    ELSE NormalizeOne(normalizer.items[1], token)

---------------------------------------------------------------------------
(* Token classifier *)

classify(stop_words, token) ==
    IF is_word(token) /\ token.word \in stop_words
    THEN [token EXCEPT !.kind = "StopWord"]
    ELSE token

---------------------------------------------------------------------------
(* Script, Language and the registry *)

\* the scripts of the modelled characters, and Other
Script == {"Latin", "Mandarin", "Other"}
Language == {"English", "Other"}
Keys == Script \X Language

CountIn(s, S) == Cardinality({i \in 1..Len(s) : s[i] \in S})

\* whatlang::detect_script: the script most characters belong to (Latin on a
\* tie), none for a text without a character of any script; then
\* unwrap_or(Script::Other)
detect_script(s) ==
    LET latin == CountIn(s, LatinLower \cup LatinUpper)
        mandarin == CountIn(s, CjkChars)
    IN  IF latin = 0 /\ mandarin = 0 THEN "Other"
        ELSE IF latin >= mandarin THEN "Latin" ELSE "Mandarin"

\* variant: a text with a Latin letter is taken for English
detect_lang_english(s) ==
    IF CountIn(s, LatinLower \cup LatinUpper) > 0 THEN "English" ELSE "Other"

detect_lang(s) == "Other"

AnalyzerConfig(pipeline_map, stop_words) ==
    [pipeline_map |-> pipeline_map, stop_words |-> stop_words]

\* variant: the Latin list lowercases before it transliterates
default_with_stopwords_reversed(stop_words) ==
    AnalyzerConfig(
        (<<"Latin", "Other">> :>
            set_normalizer(set_tokenizer(PipelineDefault, "LegacyMeilisearch"),
                           VecOf(<<"LowercaseNormalizer", "DeunicodeNormalizer">>)))
        @@
        (<<"Mandarin", "Other">> :>
            set_normalizer(
                set_tokenizer(
                    set_pre_processor(PipelineDefault, "ChineseTranslationPreProcessor"),
                    "Jieba"),
                chinese_normalizer)),
        stop_words)

default_with_stopwords(stop_words) ==
    AnalyzerConfig(
        (<<"Latin", "Other">> :>
            set_normalizer(set_tokenizer(PipelineDefault, "LegacyMeilisearch"),
                           latin_normalizer))
        @@
        (<<"Mandarin", "Other">> :>
            set_normalizer(
                set_tokenizer(
                    set_pre_processor(PipelineDefault, "ChineseTranslationPreProcessor"),
                    "Jieba"),
                chinese_normalizer)),
        stop_words)

\* a reference to a pipeline: an entry of pipeline_map, or the library default
\* (instance: which construction of the default it points to)
NoKey == <<"-", "-">>
MapRef(key) == [src |-> "pipeline_map", key |-> key, instance |-> 0]
DefaultRef(cell) == [src |-> "DEFAULT_PIPELINE", key |-> NoKey, instance |-> cell.instance]

\* Lazy<Pipeline>: empty until first forced, then built once with
\* Pipeline::default and kept
Unbuilt ==
    [pre_processor |-> "-", tokenizer |-> "-", normalizer |-> One("-")]
LazyNew == [initialized |-> FALSE, instance |-> 0, value |-> Unbuilt]

\* variant: the default pipeline is built again at every use
LazyRebuild(cell) ==
    [initialized |-> TRUE, instance |-> cell.instance + 1, value |-> PipelineDefault]

LazyForce(cell) ==
    IF cell.initialized THEN cell
    ELSE [initialized |-> TRUE, instance |-> cell.instance + 1, value |-> PipelineDefault]

\* the pipeline a reference points to
Deref(cfg, cell, ref) ==
    IF ref.src = "pipeline_map" THEN cfg.pipeline_map[ref.key] ELSE cell.value

\* variant: the catch-all is tried before the script's own entry
pipeline_from_catch_all_first(cfg, cell, s) ==
    LET script == detect_script(s)
        language == detect_lang(s)
        map == cfg.pipeline_map
    IN  IF <<script, language>> \in DOMAIN map /\ language # "Other"
        THEN [ref |-> MapRef(<<script, language>>), cell |-> cell]
        ELSE IF <<"Other", "Other">> \in DOMAIN map
        THEN [ref |-> MapRef(<<"Other", "Other">>), cell |-> cell]
        ELSE IF <<script, "Other">> \in DOMAIN map
        THEN [ref |-> MapRef(<<script, "Other">>), cell |-> cell]
        ELSE [ref |-> DefaultRef(LazyForce(cell)), cell |-> LazyForce(cell)]

\* pipeline_from: the reference returned, and the default cell after the call
\* (forced only when the chain reaches it)
pipeline_from(cfg, cell, s) ==
    LET script == detect_script(s)
        language == detect_lang(s)
        map == cfg.pipeline_map
    IN  IF <<script, language>> \in DOMAIN map
        THEN [ref |-> MapRef(<<script, language>>), cell |-> cell]
        ELSE IF <<script, "Other">> \in DOMAIN map
        THEN [ref |-> MapRef(<<script, "Other">>), cell |-> cell]
        ELSE IF <<"Other", "Other">> \in DOMAIN map
        THEN [ref |-> MapRef(<<"Other", "Other">>), cell |-> cell]
        ELSE [ref |-> DefaultRef(LazyForce(cell)), cell |-> LazyForce(cell)]

\* variant: the text is kept as it is, the pre-processor never runs
analyze_unprocessed(cfg, cell, s) ==
    LET found == pipeline_from(cfg, cell, s)
    IN  [analyzed |-> [processed |-> IdentityProcess(s), pipeline |-> found.ref],
         cell |-> found.cell]

\* analyze: the AnalyzedText returned, and the default cell after the call
analyze(cfg, cell, s) ==
    LET found == pipeline_from(cfg, cell, s)
        pipeline == Deref(cfg, found.cell, found.ref)
        processed == process(pipeline.pre_processor, s)
    IN  [analyzed |-> [processed |-> processed, pipeline |-> found.ref],
         cell |-> found.cell]

---------------------------------------------------------------------------
(* AnalyzedText: tokens() and reconstruct() *)

PipelineOf(self) == Deref(config, DEFAULT_PIPELINE, self.pipeline)

\* variant: classify, then normalize
StreamMapClassifyFirst(self, t) ==
    normalize(PipelineOf(self).normalizer, classify(config.stop_words, t))

\* the two maps of tokens(): normalize, then classify
StreamMap(self, t) ==
    classify(config.stop_words, normalize(PipelineOf(self).normalizer, t))

\* variant: the slice is taken from the processed text
ReconstructSliceProcessed(self, t) ==
    Slice(self.processed.processed, t.byte_start, t.byte_end)

\* the slice reconstruct() pairs a token with
ReconstructSlice(self, t) == Slice(self.processed.original, t.byte_start, t.byte_end)

NoStream ==
    [live |-> FALSE, recon |-> FALSE, pos |-> 0, ended |-> FALSE, yielded |-> <<>>]

\* variant: a new stream goes on where the furthest stream stands
tokens_resumed(self) ==
    LET furthest == CHOOSE n \in {streams[i].pos : i \in 1..MaxStreams} :
                        \A i \in 1..MaxStreams : streams[i].pos <= n
    IN  [live |-> TRUE, recon |-> FALSE, pos |-> furthest, ended |-> FALSE, yielded |-> <<>>]

\* tokens(): a new stream, nothing pulled yet
tokens(self) ==
    [live |-> TRUE, recon |-> FALSE, pos |-> 0, ended |-> FALSE, yielded |-> <<>>]

\* reconstruct(): tokens(), each token paired with its slice of the original
reconstruct(self) == [tokens(self) EXCEPT !.recon = TRUE]

\* one pull: the next token of the segmenter, mapped; None ends the stream
StreamNext(self, stream) ==
    LET raw == tokenize(PipelineOf(self).tokenizer, self.processed)
    IN  IF stream.pos < Len(raw)
        THEN LET t == StreamMap(self, raw[stream.pos + 1])
                 item == [slice |-> IF stream.recon THEN ReconstructSlice(self, t) ELSE <<>>,
                          token |-> t]
             IN  [stream EXCEPT !.pos = @ + 1, !.yielded = Append(@, item)]
        ELSE [stream EXCEPT !.ended = TRUE]

---------------------------------------------------------------------------
(* Inputs *)

Of == <<"o", "f">>
The == <<"t", "h", "e">>
\* the stop words of tests/token_kind.rs; a set with a word and a separator
StopWordSets == {{Of, The}, {<<"b">>, <<".">>}}

Pipelines ==
    [pre_processor : PreProcessors, tokenizer : Tokenizers, normalizer : Normalizers]

\* the normalizers of the catch-all pipelines
CatchAllNormalizers ==
    {IdentityNormalizer, LowercaseNormalizer, latin_normalizer,
     VecOf(<<"LowercaseNormalizer", "DeunicodeNormalizer">>), VecOf(<<>>)}

\* the pipeline of tests: Pipeline::default().set_normalizer(LowercaseNormalizer)
LowercasePipeline == set_normalizer(PipelineDefault, LowercaseNormalizer)

EmptyMap == [k \in {} |-> PipelineDefault]

\* registries for the token stream: the built-in one, none, the one of the
\* tests, and every pipeline as the catch-all
NamedMaps ==
    {default_with_stopwords({}).pipeline_map, EmptyMap,
     <<"Latin", "Other">> :> LowercasePipeline}
CatchAllMaps ==
    {<<"Other", "Other">> :> p :
        p \in {q \in Pipelines : q.normalizer \in CatchAllNormalizers}}

Configs ==
    {AnalyzerConfig(m, sw) : m \in NamedMaps, sw \in StopWordSets}
    \cup {AnalyzerConfig(m, {<<"b">>, <<".">>}) : m \in CatchAllMaps}

\* registries for resolution: every choice of at most MaxEntries keys
SamplePipelines == {LowercasePipeline, default_with_stopwords({}).pipeline_map[<<"Mandarin", "Other">>]}
KeySets == {K \in SUBSET Keys : Cardinality(K) <= MaxEntries}
ResolveMaps == UNION {[K -> SamplePipelines] : K \in KeySets}
ResolveConfigs == {AnalyzerConfig(m, {}) : m \in ResolveMaps}

---------------------------------------------------------------------------
(* The state machine *)

NewBuilder == [pipeline |-> PipelineDefault, calls |-> <<>>]

InitWith(cfgs) ==
    /\ config \in cfgs
    /\ DEFAULT_PIPELINE = LazyNew
    /\ text_arg = <<>>
    /\ analyzed = <<>>
    /\ streams = [i \in 1..MaxStreams |-> NoStream]
    /\ builder = NewBuilder

Init == InitWith(Configs)

\* analyzer.analyze(s); the AnalyzedText of the call before is gone, and with it
\* its streams, which borrow it
Analyze(s) ==
    /\ \A i \in 1..MaxStreams : ~streams[i].live
    /\ LET r == analyze(config, DEFAULT_PIPELINE, s)
       IN  /\ analyzed' = <<r.analyzed>>
           /\ DEFAULT_PIPELINE' = r.cell
    /\ text_arg' = s
    /\ UNCHANGED <<config, streams, builder>>

\* a new stream takes the first free place
IsFree(i) == ~streams[i].live /\ \A j \in 1..(i - 1) : streams[j].live

\* let stream = analyzed.tokens()
Tokens(i) ==
    /\ analyzed # <<>>
    /\ IsFree(i)
    /\ streams' = [streams EXCEPT ![i] = tokens(analyzed[1])]
    /\ UNCHANGED <<config, DEFAULT_PIPELINE, text_arg, analyzed, builder>>

\* let stream = analyzed.reconstruct()
Reconstruct(i) ==
    /\ analyzed # <<>>
    /\ IsFree(i)
    /\ streams' = [streams EXCEPT ![i] = reconstruct(analyzed[1])]
    /\ UNCHANGED <<config, DEFAULT_PIPELINE, text_arg, analyzed, builder>>

\* stream.next()
Pull(i) ==
    /\ streams[i].live
    /\ ~streams[i].ended
    /\ streams' = [streams EXCEPT ![i] = StreamNext(analyzed[1], streams[i])]
    /\ UNCHANGED <<config, DEFAULT_PIPELINE, text_arg, analyzed, builder>>

\* the stream is dropped, wherever it stands
Drop(i) ==
    /\ streams[i].live
    /\ streams' = [streams EXCEPT ![i] = NoStream]
    /\ UNCHANGED <<config, DEFAULT_PIPELINE, text_arg, analyzed, builder>>

Next ==
    \/ \E s \in Texts : Analyze(s)
    \/ \E i \in 1..MaxStreams : Tokens(i)
    \/ \E i \in 1..MaxStreams : Reconstruct(i)
    \/ \E i \in 1..MaxStreams : Pull(i)
    \/ \E i \in 1..MaxStreams : Drop(i)

Spec == Init /\ [][Next]_vars
\* resolution alone, over the wider family of registries
InitResolve == InitWith(ResolveConfigs)

NextResolve == \E s \in ResolveTexts : Analyze(s)

SpecResolve == InitResolve /\ [][NextResolve]_vars

---------------------------------------------------------------------------
(* Building a pipeline *)

NoArg == [pre_processor |-> "-", tokenizer |-> "-", normalizer |-> One("-")]

\* let pipeline = Pipeline::default()
PipelineNew ==
    /\ builder' = NewBuilder
    /\ UNCHANGED <<config, DEFAULT_PIPELINE, text_arg, analyzed, streams>>

SetPreProcessor(p) ==
    /\ Len(builder.calls) < MaxSetterCalls
    /\ builder' =
         [pipeline |-> set_pre_processor(builder.pipeline, p),
          calls |-> Append(builder.calls,
                           [NoArg EXCEPT !.pre_processor = p] @@ [setter |-> "set_pre_processor"])]
    /\ UNCHANGED <<config, DEFAULT_PIPELINE, text_arg, analyzed, streams>>

SetTokenizer(t) ==
    /\ Len(builder.calls) < MaxSetterCalls
    /\ builder' =
         [pipeline |-> set_tokenizer(builder.pipeline, t),
          calls |-> Append(builder.calls,
                           [NoArg EXCEPT !.tokenizer = t] @@ [setter |-> "set_tokenizer"])]
    /\ UNCHANGED <<config, DEFAULT_PIPELINE, text_arg, analyzed, streams>>

SetNormalizer(n) ==
    /\ Len(builder.calls) < MaxSetterCalls
    /\ builder' =
         [pipeline |-> set_normalizer(builder.pipeline, n),
          calls |-> Append(builder.calls,
                           [NoArg EXCEPT !.normalizer = n] @@ [setter |-> "set_normalizer"])]
    /\ UNCHANGED <<config, DEFAULT_PIPELINE, text_arg, analyzed, streams>>

InitBuilder == InitWith({AnalyzerConfig(EmptyMap, {})})

NextBuilder ==
    \/ PipelineNew
    \/ \E p \in PreProcessors : SetPreProcessor(p)
    \/ \E t \in Tokenizers : SetTokenizer(t)
    \/ \E n \in Normalizers : SetNormalizer(n)

SpecBuilder == InitBuilder /\ [][NextBuilder]_vars

---------------------------------------------------------------------------
(* Properties *)

Self == analyzed[1]

Live == {i \in 1..MaxStreams : streams[i].live}

\* the tokens of the segmenter for the processed text of self
RawTokens(self) == tokenize(PipelineOf(self).tokenizer, self.processed)

\* the whole token sequence of a pass over self
AllTokens(self) ==
    LET raw == RawTokens(self) IN [k \in 1..Len(raw) |-> StreamMap(self, raw[k])]

SlicesOf(stream) == [k \in 1..Len(stream.yielded) |-> stream.yielded[k].slice]

WordsOf(stream) == [k \in 1..Len(stream.yielded) |-> stream.yielded[k].token.word]

KindsOf(stream) == [k \in 1..Len(stream.yielded) |-> stream.yielded[k].token.kind]

SimplifiedText(s) == [k \in 1..Len(s) |-> Simplified(s[k])]

\* C1: round trip.  When a reconstruct() stream has been pulled to its end,
\* the slices it yielded, concatenated in stream order, are the bytes of the
\* text given to analyze, for every text and every registry (every modelled
\* stage keeps the byte alignment).
C1_RoundTrip ==
    \A i \in Live :
        (streams[i].recon /\ streams[i].ended)
            => Concat(SlicesOf(streams[i])) = Bytes(text_arg)

\* a reconstruction pulled to its end, of a text the pre-processor rewrote
C1_Witness ==
    \E i \in Live :
        /\ streams[i].recon /\ streams[i].ended
        /\ Len(streams[i].yielded) >= 2
        /\ Self.processed.processed # text_arg

\* the keys of the fallback chain for a text, in the order of the chain
Chain(s) ==
    <<<<detect_script(s), detect_lang(s)>>, <<detect_script(s), "Other">>, <<"Other", "Other">>>>

Registered(s) == {k \in 1..3 : Chain(s)[k] \in DOMAIN config.pipeline_map}

\* C2: resolution order.  The pipeline of an analysis is the registry entry of
\* the first registered key among (script, language), (script, Other),
\* (Other, Other), and the built-in default when none is registered.
C2_ResolutionOrder ==
    analyzed # <<>> =>
        IF Registered(text_arg) = {}
        THEN Self.pipeline.src = "DEFAULT_PIPELINE"
        ELSE \E k \in Registered(text_arg) :
                /\ \A j \in Registered(text_arg) : k <= j
                /\ Self.pipeline = MapRef(Chain(text_arg)[k])

\* a text of a script with its own entry, in a registry that also has the
\* catch-all: the script's entry is chosen
C2_Witness ==
    /\ analyzed # <<>>
    /\ detect_script(text_arg) # "Other"
    /\ <<detect_script(text_arg), "Other">> \in DOMAIN config.pipeline_map
    /\ <<"Other", "Other">> \in DOMAIN config.pipeline_map
    /\ Self.pipeline = MapRef(<<detect_script(text_arg), "Other">>)

\* C3: resolution is total.  Every analysis holds a reference to a registry
\* entry that exists or to the built default; when no key of the chain is
\* registered it is the default (identity pre-processor, Unicode segmenter,
\* identity normalizer), and every token's text is the input text at the
\* token's place, the texts of a finished stream making up the whole input.
C3_Total ==
    analyzed # <<>> =>
        /\ \/ /\ Self.pipeline.src = "pipeline_map"
              /\ Self.pipeline.key \in DOMAIN config.pipeline_map
           \/ /\ Self.pipeline.src = "DEFAULT_PIPELINE"
              /\ DEFAULT_PIPELINE.initialized
              /\ Self.pipeline.instance = DEFAULT_PIPELINE.instance
        /\ Registered(text_arg) = {} =>
              /\ Self.pipeline.src = "DEFAULT_PIPELINE"
              /\ PipelineOf(Self) =
                    [pre_processor |-> "IdentityPreProcessor",
                     tokenizer |-> "UnicodeSegmenter",
                     normalizer |-> One("IdentityNormalizer")]
              /\ \A i \in Live :
                    /\ \A k \in 1..Len(streams[i].yielded) :
                          LET t == streams[i].yielded[k].token
                          IN  Bytes(text(t)) = Slice(text_arg, t.byte_start, t.byte_end)
                    /\ streams[i].ended => Concat(WordsOf(streams[i])) = text_arg

\* an empty registry, a text with an upper-case letter, a stream at its end
C3_Witness ==
    /\ analyzed # <<>>
    /\ DOMAIN config.pipeline_map = {}
    /\ \E k \in 1..Len(text_arg) : text_arg[k] \in LatinUpper
    /\ \E i \in Live : streams[i].ended /\ Len(streams[i].yielded) >= 2

\* C4: stop-word classification.  A yielded token whose segment was a Word is
\* a StopWord exactly when its normalized text is in the stop-word set and a
\* Word otherwise; a Separator segment stays a Separator; word and offsets
\* are the normalizer's.
C4_StopWords ==
    \A i \in Live : \A k \in 1..Len(streams[i].yielded) :
        LET t == streams[i].yielded[k].token
            raw == RawTokens(Self)[k]
            n == normalize(PipelineOf(Self).normalizer, raw)
        IN  /\ (raw.kind = "Word" /\ n.word \in config.stop_words) => t.kind = "StopWord"
            /\ (raw.kind = "Word" /\ n.word \notin config.stop_words) => t.kind = "Word"
            /\ raw.kind = "Separator" => t.kind = "Separator"
            /\ t.word = n.word
            /\ t.byte_start = n.byte_start
            /\ t.byte_end = n.byte_end

\* one stream has yielded a StopWord that is a stop word only once
\* normalized, and a Separator whose text is in the stop-word set
C4_Witness ==
    \E i \in Live :
        /\ \E k \in 1..Len(streams[i].yielded) :
              /\ streams[i].yielded[k].token.kind = "StopWord"
              /\ RawTokens(Self)[k].word \notin config.stop_words
        /\ \E k \in 1..Len(streams[i].yielded) :
              /\ streams[i].yielded[k].token.kind = "Separator"
              /\ streams[i].yielded[k].token.word \in config.stop_words

\* the kinds a token has when a separator carries its Hard or Soft kind
KindsWithSeparatorKind == {"Word", "StopWord", "Separator(Hard)", "Separator(Soft)"}

\* C5: every separator token carries one separator kind, Hard or Soft, which
\* is_separator returns, and no other token does; the stream of
\* "Hello, the dog." with the stop words of, the yields Word, Separator(Hard),
\* StopWord, Separator(Soft), Word, Separator(Hard) and ends.
C5_SeparatorKinds ==
    \A i \in Live :
        /\ \A k \in 1..Len(streams[i].yielded) :
              LET t == streams[i].yielded[k].token
              IN  /\ t.kind \in KindsWithSeparatorKind
                  /\ is_separator(t) <=> t.kind \in {"Separator(Hard)", "Separator(Soft)"}
        /\ ( /\ text_arg = HelloTheDog
             /\ config = default_with_stopwords({Of, The})
             /\ streams[i].ended )
              => KindsOf(streams[i]) =
                    <<"Word", "Separator(Hard)", "StopWord", "Separator(Soft)", "Word",
                      "Separator(Hard)">>

\* what the stream of "Hello, the dog." yields in the model
C5_Observed ==
    \E i \in Live :
        /\ text_arg = HelloTheDog
        /\ config = default_with_stopwords({Of, The})
        /\ streams[i].ended
        /\ KindsOf(streams[i]) =
              <<"Word", "Separator", "StopWord", "Separator", "Word", "Separator">>

\* C6: determinism.  Analyzing the same text again, now, resolves the same
\* pipeline reference as the analysis at hand, builds no further default
\* pipeline (it is built at most once), gives the same AnalyzedText, and a
\* pass over it gives the tokens the streams of the analysis at hand yielded.
C6_Determinism ==
    analyzed # <<>> =>
        LET again == analyze(config, DEFAULT_PIPELINE, text_arg)
        IN  /\ again.analyzed.pipeline = Self.pipeline
            /\ again.cell = DEFAULT_PIPELINE
            /\ DEFAULT_PIPELINE.instance <= 1
            /\ again.analyzed = Self
            /\ \A i \in Live :
                  /\ \A k \in 1..Len(streams[i].yielded) :
                        /\ k <= Len(AllTokens(again.analyzed))
                        /\ streams[i].yielded[k].token = AllTokens(again.analyzed)[k]
                  /\ streams[i].ended =>
                        Len(streams[i].yielded) = Len(AllTokens(again.analyzed))

\* an analysis that resolved to the built-in default, with a finished stream
C6_Witness ==
    /\ analyzed # <<>>
    /\ Self.pipeline.src = "DEFAULT_PIPELINE"
    /\ \E i \in Live : streams[i].ended /\ Len(streams[i].yielded) >= 2

\* C7: tokens() is repeatable.  Every stream of one AnalyzedText, however the
\* pulls of the streams interleave and whichever streams were dropped, has
\* yielded the first tokens of the one token sequence of that AnalyzedText,
\* as many as it was pulled, and all of them when it has ended.
C7_Repeatable ==
    \A i \in Live :
        LET all == AllTokens(Self)
            got == streams[i].yielded
        IN  /\ Len(got) <= Len(all)
            /\ streams[i].pos = Len(got)
            /\ \A k \in 1..Len(got) : got[k].token = all[k]
            /\ streams[i].ended => Len(got) = Len(all)

\* two streams of one AnalyzedText at different places: one at its end, the
\* other one token in
C7_Witness ==
    /\ streams[1].live /\ streams[1].ended /\ Len(streams[1].yielded) >= 2
    /\ streams[2].live /\ ~streams[2].ended /\ Len(streams[2].yielded) = 1

\* C8: with the Chinese pre-processor and a text it rewrites, the words of the
\* tokens are the words of the same analysis of the simplified text, and the
\* slices of a reconstruction are slices of the text as given, making up that
\* text when the reconstruction has ended.
C8_Traditional ==
    ( /\ analyzed # <<>>
      /\ PipelineOf(Self).pre_processor = "ChineseTranslationPreProcessor"
      /\ SimplifiedText(text_arg) # text_arg )
    =>
        LET counterpart == analyze(config, DEFAULT_PIPELINE, SimplifiedText(text_arg)).analyzed
            words == [k \in 1..Len(AllTokens(counterpart)) |-> AllTokens(counterpart)[k].word]
        IN  \A i \in Live :
                /\ Len(streams[i].yielded) <= Len(words)
                /\ WordsOf(streams[i]) = SubSeq(words, 1, Len(streams[i].yielded))
                /\ streams[i].ended => WordsOf(streams[i]) = words
                /\ streams[i].recon =>
                      /\ \A k \in 1..Len(streams[i].yielded) :
                            LET item == streams[i].yielded[k]
                            IN  item.slice =
                                  Slice(text_arg, item.token.byte_start, item.token.byte_end)
                      /\ streams[i].ended => Concat(SlicesOf(streams[i])) = Bytes(text_arg)

\* a finished reconstruction of a text with a traditional character, resolved
\* to the Mandarin pipeline of the built-in registry
C8_Witness ==
    /\ analyzed # <<>>
    /\ Self.pipeline = MapRef(<<"Mandarin", "Other">>)
    /\ config.pipeline_map = default_with_stopwords({}).pipeline_map
    /\ SimplifiedText(text_arg) # text_arg
    /\ \E i \in Live :
          /\ streams[i].recon /\ streams[i].ended
          /\ \E k \in 1..Len(streams[i].yielded) :
                Bytes(streams[i].yielded[k].token.word) # streams[i].yielded[k].slice

\* the members of a list of normalizers applied to a word, the first first
RECURSIVE InListOrder(_, _, _)
InListOrder(items, n, token) ==
    IF n = 0 THEN token
    ELSE NormalizeOne(items[n], InListOrder(items, n - 1, token))

\* C9: a yielded token has the offsets of the segmenter's token and its kind
\* (a Word may have become a StopWord); its word is the segmenter's word after
\* the members of the pipeline's normalizer in list order; the Latin pipeline
\* of the built-in registry transliterates, then lowercases; the identity
\* normalizer leaves the word as it was.
C9_NormalizerFrame ==
    \A i \in Live : \A k \in 1..Len(streams[i].yielded) :
        LET t == streams[i].yielded[k].token
            raw == RawTokens(Self)[k]
            normalizer == PipelineOf(Self).normalizer
        IN  /\ t.byte_start = raw.byte_start
            /\ t.byte_end = raw.byte_end
            /\ t.kind = raw.kind \/ (raw.kind = "Word" /\ t.kind = "StopWord")
            /\ t.word = InListOrder(normalizer.items, Len(normalizer.items), raw).word
            /\ ( /\ config.pipeline_map = default_with_stopwords({}).pipeline_map
                 /\ Self.pipeline = MapRef(<<"Latin", "Other">>) )
                  => t.word = LowercaseWord(DeunicodeWord(raw.word))
            /\ normalizer = One("IdentityNormalizer") => t.word = raw.word

\* a token of the built-in Latin pipeline whose word both members changed
C9_Witness ==
    /\ analyzed # <<>>
    /\ config.pipeline_map = default_with_stopwords({}).pipeline_map
    /\ Self.pipeline = MapRef(<<"Latin", "Other">>)
    /\ \E i \in Live : \E k \in 1..Len(streams[i].yielded) :
          LET t == streams[i].yielded[k].token
              raw == RawTokens(Self)[k]
          IN  /\ DeunicodeWord(raw.word) # raw.word
              /\ t.word # DeunicodeWord(raw.word)

\* the argument of the last call of a setter, or the default when it was
\* never called
RECURSIVE LastGiven(_, _, _)
LastGiven(calls, setter, default) ==
    IF calls = <<>> THEN default
    ELSE LET last == calls[Len(calls)]
         IN  IF last.setter = setter
             THEN CASE setter = "set_pre_processor" -> last.pre_processor
                    [] setter = "set_tokenizer" -> last.tokenizer
                    [] OTHER -> last.normalizer
             ELSE LastGiven(SubSeq(calls, 1, Len(calls) - 1), setter, default)

\* C10: a pipeline under construction has, for each stage, the argument of the
\* last setter called for that stage, and the default stage (identity
\* pre-processor, Unicode segmenter, identity normalizer) when none was.
C10_Builder ==
    /\ builder.pipeline.pre_processor =
          LastGiven(builder.calls, "set_pre_processor", "IdentityPreProcessor")
    /\ builder.pipeline.tokenizer =
          LastGiven(builder.calls, "set_tokenizer", "UnicodeSegmenter")
    /\ builder.pipeline.normalizer =
          LastGiven(builder.calls, "set_normalizer", One("IdentityNormalizer"))

\* a normalizer was set, then the tokenizer twice; the pre-processor never
C10_Witness ==
    /\ Len(builder.calls) = 3
    /\ builder.calls[1].setter = "set_normalizer"
    /\ builder.calls[1].normalizer # One("IdentityNormalizer")
    /\ builder.calls[2].setter = "set_tokenizer"
    /\ builder.calls[3].setter = "set_tokenizer"
    /\ builder.calls[2].tokenizer # builder.calls[3].tokenizer

\* the keys of a registry whose language is not Other
LanguageKeys == {k \in Keys : k[2] # "Other"}

\* the registry without its entries keyed with a language
WithoutLanguageKeys(cfg) ==
    AnalyzerConfig(
        [k \in DOMAIN cfg.pipeline_map \ LanguageKeys |-> cfg.pipeline_map[k]],
        cfg.stop_words)

\* the registry with one more entry
WithEntry(cfg, key, pipeline) ==
    AnalyzerConfig(
        [k \in DOMAIN cfg.pipeline_map \cup {key} |->
            IF k = key THEN pipeline ELSE cfg.pipeline_map[k]],
        cfg.stop_words)

\* C11: the language detected is always Other, so the pipeline of an analysis
\* is never an entry keyed with another language; it is the one resolved for
\* every text of the same script; and it is the one resolved in the registry
\* with its language-keyed entries removed, and in the registry with any
\* language-keyed entry added or replaced.
C11_LanguageKeysUnused ==
    analyzed # <<>> =>
        /\ detect_lang(text_arg) = "Other"
        /\ Self.pipeline.src = "pipeline_map" => Self.pipeline.key \notin LanguageKeys
        /\ \A u \in ResolveTexts :
              detect_script(u) = detect_script(text_arg)
                  => pipeline_from(config, DEFAULT_PIPELINE, u).ref = Self.pipeline
        /\ pipeline_from(WithoutLanguageKeys(config), DEFAULT_PIPELINE, text_arg).ref
              = Self.pipeline
        /\ \A key \in LanguageKeys : \A p \in SamplePipelines :
              pipeline_from(WithEntry(config, key, p), DEFAULT_PIPELINE, text_arg).ref
                  = Self.pipeline

\* a Latin text in a registry that has (Latin, English) and not
\* (Latin, Other): the entry is passed over, the default is used
C11_Witness ==
    /\ analyzed # <<>>
    /\ detect_script(text_arg) = "Latin"
    /\ <<"Latin", "English">> \in DOMAIN config.pipeline_map
    /\ <<"Latin", "Other">> \notin DOMAIN config.pipeline_map
    /\ Self.pipeline.src = "DEFAULT_PIPELINE"

====
